---- MODULE Spec2Model ----
(***************************************************************************)
(* Model of the prayer-times service: the response cache overlay that      *)
(* Server.registerRoutes wraps around every route carrying a cache         *)
(* configuration, and the schedule resolver of the /prayer-times/:q? route *)
(* (TimeCalculator, determineCurrentPrayer, determineUpcomingPrayer).      *)
(*                                                                         *)
(* Strings that the code takes apart (request URLs, cache keys, locations) *)
(* are sequences of one-character strings.  Instants are milliseconds.     *)
(***************************************************************************)
EXTENDS Integers, Sequences, FiniteSets, TLC

\* ------------------------------------------------------------------ bounds

\* Requests that arrive in one behaviour of the cache overlay.
MaxRequests == 3
\* Advances of the wall clock in one behaviour of the cache overlay.
MaxTicks == 2
\* Requests whose original handler is suspended (awaiting the geocoder).
MaxInflight == 1
\* Half hours over which the schedule resolver's now advances.
MaxHalfHours == 100
\* The largest hour count of the durations handed to the duration formatter.
MaxFormatHours == 21
\* The quarter hours of day 0 at which the asr adjustment is looked at.
MaxAsrQuarters == 96

\* Requests the prayer-times handler serves one after the other.
MaxHandled == 2
\* Operations on the geocoding cache in one behaviour.
MaxGeoOps == 3
\* Calls of the file cache's functions in one behaviour.
MaxFileOps == 3

\* The amounts by which Date.now() advances between two steps (ms).
Ticks == {500, 44500}

\* ----------------------------------------------------------- string helpers

Chars_PrayerTimes == <<"/", "p", "r", "a", "y", "e", "r", "-", "t", "i", "m", "e", "s">>
Chars_Highlight == <<"?", "h", "i", "g", "h", "l", "i", "g", "h", "t", "=", "t", "r", "u", "e">>
Chars_Generic == <<"/", "s", "t", "a", "t", "u", "s">>

\* String.prototype.startsWith
StartsWith(s, p) == Len(s) >= Len(p) /\ SubSeq(s, 1, Len(p)) = p

\* Index of the first occurrence of character c in s, 0 when there is none.
IndexOf(s, c) ==
    IF \E i \in 1..Len(s) : s[i] = c
    THEN CHOOSE i \in 1..Len(s) : s[i] = c /\ \A j \in 1..(i - 1) : s[j] # c
    ELSE 0

\* s.split(c)[0]
SplitFirst(s, c) == IF IndexOf(s, c) = 0 THEN s ELSE SubSeq(s, 1, IndexOf(s, c) - 1)

\* url.replace(/^\/prayer-times\//, "")
StripPrayerPrefix(url) ==
    LET prefix == Chars_PrayerTimes \o <<"/">>
    IN  IF StartsWith(url, prefix) THEN SubSeq(url, Len(prefix) + 1, Len(url)) ELSE url

HexDigit(c) ==
    CASE c = "0" -> 0 [] c = "1" -> 1 [] c = "2" -> 2 [] c = "3" -> 3
      [] c = "4" -> 4 [] c = "5" -> 5 [] c = "6" -> 6 [] c = "7" -> 7
      [] c = "8" -> 8 [] c = "9" -> 9 [] c = "A" -> 10 [] c = "B" -> 11
      [] c = "C" -> 12 [] c = "D" -> 13 [] c = "E" -> 14 [] c = "F" -> 15

\* The characters of the model's alphabet that a percent escape can name.
CharOfCode(n) ==
    CASE n = 32 -> " " [] n = 37 -> "%" [] n = 43 -> "+" [] n = 44 -> ","
      [] n = 63 -> "?" [] n = 65 -> "A" [] n = 66 -> "B"

\* decodeURIComponent on well-formed input: every %XY becomes the character
\* with code 16*X + Y, every other character is kept.
RECURSIVE decodeURIComponent(_)
decodeURIComponent(s) ==
    IF s = <<>> THEN <<>>
    ELSE IF s[1] = "%"
         THEN <<CharOfCode(16 * HexDigit(s[2]) + HexDigit(s[3]))>>
                  \o decodeURIComponent(SubSeq(s, 4, Len(s)))
         ELSE <<s[1]>> \o decodeURIComponent(SubSeq(s, 2, Len(s)))

\* Object spread {...data, ...extra}: extra's fields are added or overwritten.
Spread(data, extra) ==
    [f \in (DOMAIN data) \cup (DOMAIN extra) |->
        IF f \in DOMAIN extra THEN extra[f] ELSE data[f]]

\* ------------------------------------------------------------------ routes

\* The prayer-times route descriptor (url, method, cache configuration).
PrayerRoute ==
    [url |-> "/prayer-times/:q?", method |-> "GET",
     cache |-> [duration |-> 45, durationType |-> "seconds"]]

\* Any other route whose WRoute carries a cache configuration: the overlay
\* wraps it the same way, whatever its handler sends.
GenericRoute ==
    [url |-> "/status", method |-> "GET",
     cache |-> [duration |-> 45, durationType |-> "seconds"]]

convertCacheDuration(duration, type) ==
    CASE type = "seconds" -> duration
      [] type = "minutes" -> duration * 60
      [] type = "hours" -> duration * 60 * 60
      [] type = "days" -> duration * 24 * 60 * 60
      [] OTHER -> duration

\* const cacheDuration = this.convertCacheDuration(route.cache.duration, route.cache.durationType)
cacheDuration(route) == convertCacheDuration(route.cache.duration, route.cache.durationType)

\* ------------------------------------------------ time zones and schedules

Minute == 60 * 1000
Hour == 60 * 60 * 1000
Day == 24 * 60 * 60 * 1000

Abs(x) == IF x < 0 THEN -x ELSE x

\* The zone ids geo-tz resolves for the model's locations.
ZoneIds == {"Europe/London", "Asia/Karachi", "America/New_York", "Pacific/Tongatapu"}

\* The instant (ms, relative to day 0 00:00 UTC) at which America/New_York
\* leaves daylight time: 02:00 EDT = 06:00 UTC on day 0.
DstEnd == 6 * Hour

\* UTC offset of a zone at an instant, as the tz database gives it.
ZoneOffset(timezoneId, t) ==
    CASE timezoneId = "Europe/London" -> 0
      [] timezoneId = "Asia/Karachi" -> 5 * Hour
      [] timezoneId = "America/New_York" -> IF t < DstEnd THEN -(4 * Hour) ELSE -(5 * Hour)
      [] timezoneId = "Pacific/Tongatapu" -> 13 * Hour

\* date-fns-tz toZonedTime under process.env.TZ = "UTC": a Date whose getTime()
\* is the instant shifted by the zone's offset at that instant.
toZonedTime(t, timezoneId) == t + ZoneOffset(timezoneId, t)

\* The seven instants adhan's PrayerTimes holds for the calendar day that
\* starts at dayStart: solar times of day (05:00, 06:30, 12:30, 16:00, 18:30,
\* 18:30, 20:00 at the location's meridian), placed on that day as UTC.
PrayerTimesAt(solarOffset, dayStart) ==
    [fajr    |-> dayStart + 5 * Hour - solarOffset,
     sunrise |-> dayStart + 6 * Hour + 30 * Minute - solarOffset,
     dhuhr   |-> dayStart + 12 * Hour + 30 * Minute - solarOffset,
     asr     |-> dayStart + 16 * Hour - solarOffset,
     sunset  |-> dayStart + 18 * Hour + 30 * Minute - solarOffset,
     maghrib |-> dayStart + 18 * Hour + 30 * Minute - solarOffset,
     isha    |-> dayStart + 20 * Hour - solarOffset]

\* The offset of solar time from UTC at the model's locations (their
\* longitude / 15).  Tongatapu lies at longitude -175 in a +13 zone.
SolarOffset(timezoneId) ==
    CASE timezoneId = "Europe/London" -> 0
      [] timezoneId = "Asia/Karachi" -> 5 * Hour
      [] timezoneId = "America/New_York" -> -(5 * Hour)
      [] timezoneId = "Pacific/Tongatapu" -> -(11 * Hour)

\* new PrayerTimes({latitude, longitude}, localNow, CalculationMethod.Karachi()):
\* the instants of the calendar day whose year, month and date localNow shows.
PrayerTimesOf(timezoneId, localNow) ==
    PrayerTimesAt(SolarOffset(timezoneId), (localNow \div Day) * Day)

\* The labels adhan's currentPrayer() / nextPrayer() can report.
LibLabels == {"fajr", "sunrise", "dhuhr", "asr", "maghrib", "isha", "none"}

\* What the two calls report together, <<currentPrayer(), nextPrayer()>>: the
\* library walks fajr, sunrise, dhuhr, asr, maghrib, isha and reports "none"
\* for the current prayer before fajr and for the next prayer after isha.
LibReports ==
    {<<"none", "fajr">>, <<"fajr", "sunrise">>, <<"sunrise", "dhuhr">>, <<"dhuhr", "asr">>,
     <<"asr", "maghrib">>, <<"maghrib", "isha">>, <<"isha", "none">>}

\* The canonical prayer set.
Canonical == {"fajr", "dhuhr", "asr", "maghrib", "isha"}

\* ------------------------------------------------------- schedule resolver

\* TimeCalculator.formatTimeDifference: "{H}h {M}m", or "{M}m" when H is 0;
\* a string is the sequence of its pieces.
formatTimeDifference(diffMs) ==
    LET absDiffMs == Abs(diffMs)
        diffHours == absDiffMs \div (1000 * 60 * 60)
        diffMinutes == (absDiffMs % (1000 * 60 * 60)) \div (1000 * 60)
    IN  IF diffHours = 0
        THEN <<ToString(diffMinutes), "m">>
        ELSE <<ToString(diffHours), "h ", ToString(diffMinutes), "m">>

\* TimeCalculator.computeTimeDifference, up to the call of formatTimeDifference:
\* the diffMs it hands over.
TimeDifferenceMs(prayerTime, localNow, timezoneId) ==
    LET localPrayerTime == toZonedTime(prayerTime, timezoneId)
        diffMs == localPrayerTime - localNow
    IN  IF diffMs < 0 THEN diffMs + 24 * 60 * 60 * 1000 ELSE diffMs

computeTimeDifference(prayerTime, localNow, timezoneId) ==
    formatTimeDifference(TimeDifferenceMs(prayerTime, localNow, timezoneId))

\* TimeCalculator.computeTimeElapsed, up to the call of formatTimeDifference.
TimeElapsedMs(prayerTime, localNow, timezoneId) ==
    LET localPrayerTime == toZonedTime(prayerTime, timezoneId)
        diffMs == localNow - localPrayerTime
    IN  Abs(diffMs)

computeTimeElapsed(prayerTime, localNow, timezoneId) ==
    formatTimeDifference(TimeElapsedMs(prayerTime, localNow, timezoneId))

\* Mutant of determineCurrentPrayer: the lower bounds compared with > for >=.
determineCurrentPrayer_ExclusiveLower(localNow, prayerTimes, timezoneId) ==
    LET localFajr == toZonedTime(prayerTimes.fajr, timezoneId)
        localDhuhr == toZonedTime(prayerTimes.dhuhr, timezoneId)
        localAsr == toZonedTime(prayerTimes.asr, timezoneId)
        localMaghrib == toZonedTime(prayerTimes.maghrib, timezoneId)
        localIsha == toZonedTime(prayerTimes.isha, timezoneId)
        currentTime == localNow
    IN  IF currentTime > localFajr /\ currentTime < localDhuhr THEN "fajr"
        ELSE IF currentTime > localDhuhr /\ currentTime < localAsr THEN "dhuhr"
        ELSE IF currentTime > localAsr /\ currentTime < localMaghrib THEN "asr"
        ELSE IF currentTime > localMaghrib /\ currentTime < localIsha THEN "maghrib"
        ELSE "isha"

determineCurrentPrayer(localNow, prayerTimes, timezoneId) ==
    LET localFajr == toZonedTime(prayerTimes.fajr, timezoneId)
        localDhuhr == toZonedTime(prayerTimes.dhuhr, timezoneId)
        localAsr == toZonedTime(prayerTimes.asr, timezoneId)
        localMaghrib == toZonedTime(prayerTimes.maghrib, timezoneId)
        localIsha == toZonedTime(prayerTimes.isha, timezoneId)
        currentTime == localNow
    IN  IF currentTime >= localFajr /\ currentTime < localDhuhr THEN "fajr"
        ELSE IF currentTime >= localDhuhr /\ currentTime < localAsr THEN "dhuhr"
        ELSE IF currentTime >= localAsr /\ currentTime < localMaghrib THEN "asr"
        ELSE IF currentTime >= localMaghrib /\ currentTime < localIsha THEN "maghrib"
        ELSE "isha"

\* Mutant of determineUpcomingPrayer: the boundaries compared with <= for <.
determineUpcomingPrayer_Inclusive(localNow, prayerTimes, timezoneId) ==
    LET localFajr == toZonedTime(prayerTimes.fajr, timezoneId)
        localDhuhr == toZonedTime(prayerTimes.dhuhr, timezoneId)
        localAsr == toZonedTime(prayerTimes.asr, timezoneId)
        localMaghrib == toZonedTime(prayerTimes.maghrib, timezoneId)
        localIsha == toZonedTime(prayerTimes.isha, timezoneId)
        currentTime == localNow
    IN  IF currentTime <= localFajr THEN "fajr"
        ELSE IF currentTime <= localDhuhr THEN "dhuhr"
        ELSE IF currentTime <= localAsr THEN "asr"
        ELSE IF currentTime <= localMaghrib THEN "maghrib"
        ELSE IF currentTime <= localIsha THEN "isha"
        ELSE "fajr"

determineUpcomingPrayer(localNow, prayerTimes, timezoneId) ==
    LET localFajr == toZonedTime(prayerTimes.fajr, timezoneId)
        localDhuhr == toZonedTime(prayerTimes.dhuhr, timezoneId)
        localAsr == toZonedTime(prayerTimes.asr, timezoneId)
        localMaghrib == toZonedTime(prayerTimes.maghrib, timezoneId)
        localIsha == toZonedTime(prayerTimes.isha, timezoneId)
        currentTime == localNow
    IN  IF currentTime < localFajr THEN "fajr"
        ELSE IF currentTime < localDhuhr THEN "dhuhr"
        ELSE IF currentTime < localAsr THEN "asr"
        ELSE IF currentTime < localMaghrib THEN "maghrib"
        ELSE IF currentTime < localIsha THEN "isha"
        ELSE "fajr"

\* The handler's choice of current_prayer: the library's label, replaced by
\* determineCurrentPrayer only when the library reports "none".
currentPrayerOf(libCurrent, localNow, prayerTimes, timezoneId) ==
    IF libCurrent = "none"
    THEN determineCurrentPrayer(localNow, prayerTimes, timezoneId)
    ELSE libCurrent

\* The handler's choice of upcoming_prayer.
upcomingPrayerOf(libNext, localNow, prayerTimes, timezoneId) ==
    IF libNext = "none"
    THEN determineUpcomingPrayer(localNow, prayerTimes, timezoneId)
    ELSE libNext

\* input.charAt(0).toUpperCase() + input.slice(1) on the labels of the model.
UpperFirst(input) ==
    CASE input = "fajr" -> "Fajr" [] input = "sunrise" -> "Sunrise"
      [] input = "dhuhr" -> "Dhuhr" [] input = "asr" -> "Asr"
      [] input = "maghrib" -> "Maghrib" [] input = "isha" -> "Isha"
      [] input = "sunset" -> "Sunset" [] input = "none" -> "None"

capitalize(input, applyMarkdownHighlight) ==
    IF input = "" THEN <<>>
    ELSE IF applyMarkdownHighlight
         THEN <<"**", UpperFirst(input), "**">>
         ELSE <<UpperFirst(input)>>

\* format(zoned, "h:mm a"): 12-hour clock, minutes in two digits, AM or PM.
formatClock(zoned) ==
    LET minuteOfDay == (zoned % Day) \div Minute
        h == minuteOfDay \div 60
        mm == minuteOfDay % 60
    IN  <<ToString(IF h % 12 = 0 THEN 12 ELSE h % 12), ":",
          IF mm < 10 THEN "0" ELSE "", ToString(mm), " ",
          IF h < 12 THEN "AM" ELSE "PM">>

PrayerNames == {"fajr", "dhuhr", "asr", "maghrib", "isha", "sunrise", "sunset"}

\* The asr instant with the dhuhr/sunset average put in its place.
adjustAsr_AsrSunsetAverage(lib, asr_adjustment) ==
    IF asr_adjustment = "true"
    THEN [lib EXCEPT !.asr = (lib.asr + lib.sunset) \div 2]
    ELSE lib

\* if (asr_adjustment === "true") prayerTimes.asr = new Date((dhuhr + sunset) / 2):
\* a Date keeps whole milliseconds, so half a millisecond is dropped (instants
\* count from day 0 of the model, an even number of milliseconds after the
\* epoch, so that dropping it is \div here as well).
adjustAsr(lib, asr_adjustment) ==
    IF asr_adjustment = "true"
    THEN [lib EXCEPT !.asr = (lib.dhuhr + lib.sunset) \div 2]
    ELSE lib

\* The status sentence, from the instants the response reports.
statusSentence(flags, localNow, timezoneId, prayerTimesUTC, libCurrent, libNext) ==
    LET currentPrayer == currentPrayerOf(libCurrent, localNow, prayerTimesUTC, timezoneId)
        upcomingPrayer == upcomingPrayerOf(libNext, localNow, prayerTimesUTC, timezoneId)
    IN  <<"It's currently ">> \o capitalize(currentPrayer, flags.highlight = "true")
            \o <<". ">> \o capitalize(upcomingPrayer, flags.highlight = "true")
            \o <<" in ">>
            \o computeTimeDifference(prayerTimesUTC[upcomingPrayer], localNow, timezoneId)
            \o <<".">>

\* The status sentence of the response.
statusStringOf(flags, now, timezoneId, libCurrent, libNext) ==
    LET localNow == toZonedTime(now, timezoneId)
    IN  statusSentence(flags, localNow, timezoneId,
                       adjustAsr(PrayerTimesOf(timezoneId, localNow), flags.asr_adjustment),
                       libCurrent, libNext)

\* The fields of the response that tell one response from another where only
\* the cache overlay is looked at: the status sentence, the location and the
\* local time.
responseSummary(query, flags, now, timezoneId, libCurrent, libNext) ==
    [status_string |-> statusStringOf(flags, now, timezoneId, libCurrent, libNext),
     location_string |-> query,
     local_time |-> formatClock(toZonedTime(now, timezoneId))]

\* The part of the route handler that follows the timezone lookup: from now,
\* the zone, the library's instants and labels and the query flags to the
\* response object (the fields the schedule resolver and the status composer
\* fill).
responseOf(query, flags, now, timezoneId, lib, libCurrent, libNext) ==
    LET localNow == toZonedTime(now, timezoneId)
        prayerTimesUTC == adjustAsr(lib, flags.asr_adjustment)
        prayerTimesLocal ==
            [p \in PrayerNames |-> formatClock(toZonedTime(prayerTimesUTC[p], timezoneId))]
        prayerTimeDifferences ==
            [p \in PrayerNames |-> computeTimeDifference(prayerTimesUTC[p], localNow, timezoneId)]
        currentPrayer == currentPrayerOf(libCurrent, localNow, prayerTimesUTC, timezoneId)
        upcomingPrayer == upcomingPrayerOf(libNext, localNow, prayerTimesUTC, timezoneId)
        currentPrayerTimeElapsed ==
            computeTimeElapsed(prayerTimesUTC[currentPrayer], localNow, timezoneId)
        upcomingPrayerTimeLeft == prayerTimeDifferences[upcomingPrayer]
        statusString ==
            statusSentence(flags, localNow, timezoneId, prayerTimesUTC, libCurrent, libNext)
    IN  [status_string |-> statusString,
         location_string |-> query,
         local_timezone_id |-> timezoneId,
         local_time |-> formatClock(localNow),
         times |-> prayerTimesLocal,
         times_in_utc |-> prayerTimesUTC,
         times_left |-> prayerTimeDifferences,
         current_prayer |-> currentPrayer,
         upcoming_prayer |-> upcomingPrayer,
         current_prayer_time_elapsed |-> currentPrayerTimeElapsed,
         upcoming_prayer_time_left |-> upcomingPrayerTimeLeft]

\* The response for the instants the library computes for the day localNow shows.
prayerTimesResponse(query, flags, now, timezoneId, libCurrent, libNext) ==
    responseOf(query, flags, now, timezoneId,
               PrayerTimesOf(timezoneId, toZonedTime(now, timezoneId)), libCurrent, libNext)

\* ------------------------------------------------------------------- state

VARIABLES
    \* Server.routeCache: cache key -> [data, timestamp]
    routeCache,
    \* Date.now() of the server process (ms)
    clock,
    \* advances of clock so far
    nticks,
    \* requests arrived so far
    nreq,
    \* requests whose original handler has been called and has not replied yet
    inflight,
    \* the requests clients send in this behaviour
    universe,
    \* fileCache of the file cache module: path -> CachedFile
    fileCache,
    \* what the last step did: a request arrived (with what the wrapped handler
    \* found and did), an original handler replied (with what the onSend hook
    \* did), or the clock advanced
    event,
    \* per location of a path segment: the last 200 reply of the original handler
    lastOk,
    \* GeocodingCache.cache: the entries [key, result, timestamp, ttl] in the
    \* order of their insertion
    geocodingCache,
    \* new Date() of the schedule resolver (ms, relative to day 0 00:00 UTC)
    now,
    \* the zone id resolved for the location the resolver is asked about
    timezoneId,
    \* the last result of the prayer-times code under study (a response of the
    \* handler, a formatted duration), with its inputs
    view

cacheVars == <<routeCache, clock, nticks, nreq, inflight, universe, fileCache, event, lastOk, geocodingCache>>
prayerVars == <<now, timezoneId, view>>
vars ==
    <<routeCache, clock, nticks, nreq, inflight, universe, fileCache, event, lastOk, geocodingCache, now,
      timezoneId, view>>

\* ---------------------------------------------------------------- requests

\* The locations a path segment of the model's requests names.
PathLocations == {<<"A">>, <<"B">>}

NoQuery == [q |-> <<>>, query |-> <<>>, highlight |-> "", asr_adjustment |-> ""]

\* A GET request as Fastify hands it to the route: the raw url, the parsed
\* query string and the route parameters.  form and location say what the
\* client asked for: a location in the path segment, one in ?q=, or none.
Request(route, url, query, paramQ, form, location) ==
    [route |-> route, method |-> "GET", url |-> url, query |-> query,
     params |-> [q |-> paramQ, query |-> <<>>], form |-> form, location |-> location]

ReqA == Request(PrayerRoute, Chars_PrayerTimes \o <<"/", "A">>, NoQuery, <<"A">>, "path", <<"A">>)
ReqAEncoded ==
    Request(PrayerRoute, Chars_PrayerTimes \o <<"/", "%", "4", "1">>, NoQuery, <<"A">>,
            "path", <<"A">>)
ReqAHighlight ==
    Request(PrayerRoute, Chars_PrayerTimes \o <<"/", "A">> \o Chars_Highlight,
            [NoQuery EXCEPT !.highlight = "true"], <<"A">>, "path", <<"A">>)
ReqB == Request(PrayerRoute, Chars_PrayerTimes \o <<"/", "B">>, NoQuery, <<"B">>, "path", <<"B">>)
ReqGeneric == Request(GenericRoute, Chars_Generic, NoQuery, <<>>, "none", <<>>)

\* The requests handed to the prayer-times handler: without a location
\* (/prayer-times and /prayer-times/), with the location in q or query after
\* /prayer-times or /prayer-times/, with a doubly encoded q
\* (/prayer-times/?q=A%2520B, which Fastify parses to A%20B), and with a path
\* segment, encoded or followed by a q.
Chars_Q == <<"?", "q", "=">>
Chars_Query == <<"?", "q", "u", "e", "r", "y", "=">>

ReqBare == Request(PrayerRoute, Chars_PrayerTimes, NoQuery, <<>>, "none", <<>>)
ReqBareSlash == Request(PrayerRoute, Chars_PrayerTimes \o <<"/">>, NoQuery, <<>>, "none", <<>>)
ReqQ ==
    Request(PrayerRoute, Chars_PrayerTimes \o Chars_Q \o <<"A">>,
            [NoQuery EXCEPT !.q = <<"A">>], <<>>, "query", <<"A">>)
ReqQueryParam ==
    Request(PrayerRoute, Chars_PrayerTimes \o Chars_Query \o <<"B">>,
            [NoQuery EXCEPT !.query = <<"B">>], <<>>, "query", <<"B">>)
ReqSlashQ ==
    Request(PrayerRoute, Chars_PrayerTimes \o <<"/">> \o Chars_Q \o <<"A">>,
            [NoQuery EXCEPT !.q = <<"A">>], <<>>, "query", <<"A">>)
ReqSlashQueryParam ==
    Request(PrayerRoute, Chars_PrayerTimes \o <<"/">> \o Chars_Query \o <<"B">>,
            [NoQuery EXCEPT !.query = <<"B">>], <<>>, "query", <<"B">>)
ReqSlashQDouble ==
    Request(PrayerRoute,
            Chars_PrayerTimes \o <<"/">> \o Chars_Q \o <<"A", "%", "2", "5", "2", "0", "B">>,
            [NoQuery EXCEPT !.q = <<"A", "%", "2", "0", "B">>], <<>>, "query",
            <<"A", " ", "B">>)
ReqPathEncoded ==
    Request(PrayerRoute, Chars_PrayerTimes \o <<"/", "A", "%", "2", "C", "B">>, NoQuery,
            <<"A", ",", "B">>, "path", <<"A", ",", "B">>)
ReqPathAndQ ==
    Request(PrayerRoute, Chars_PrayerTimes \o <<"/", "A">> \o Chars_Q \o <<"B">>,
            [NoQuery EXCEPT !.q = <<"B">>], <<"A">>, "path", <<"A">>)

\* The sets of requests a behaviour draws from: one location under two
\* spellings of its url, the location with a percent-encoded path, another
\* location, two locations named by q and by query after /prayer-times, and
\* another cached route.
RequestUniverses ==
    {{ReqA, ReqAHighlight}, {ReqAEncoded}, {ReqB}, {ReqQ, ReqQueryParam}, {ReqGeneric}}

\* ------------------------------------------------------- original handlers

\* s.includes(sub)
Includes(s, sub) ==
    \E i \in 1..(Len(s) - Len(sub) + 1) : SubSeq(s, i, i + Len(sub) - 1) = sub

\* getQuery(request.query, request.params); undefined is the empty string.
getQuery(queryObject, paramObject) ==
    LET query ==
            IF queryObject.q # <<>> THEN queryObject.q
            ELSE IF paramObject.q # <<>> THEN paramObject.q
            ELSE IF queryObject.query # <<>> THEN queryObject.query
            ELSE paramObject.query
        decoded == decodeURIComponent(query)
    IN  IF query = <<>> THEN <<>>
        ELSE IF \/ Includes(decoded, <<"%", "2", "0">>)
                \/ Includes(decoded, <<"%", "2", "C">>)
                \/ Includes(decoded, <<"%", "2", "B">>)
             THEN decodeURIComponent(decoded)
             ELSE decoded

\* const pathLocation = decodeURIComponent(request.url.replace(/^\/prayer-times\//, "").split("?")[0])
pathLocationOf(url) == decodeURIComponent(SplitFirst(StripPrayerPrefix(url), "?"))

\* The zone geo-tz finds for the coordinates the geocoder resolves a location to.
ZoneOfLocation(query) ==
    CASE query = <<"B">> -> "Asia/Karachi"
      [] query = <<"A", " ", "B">> -> "America/New_York"
      [] query = <<"A", ",", "B">> -> "Pacific/Tongatapu"
      [] OTHER -> "Europe/London"

\* adhan's currentPrayer() and nextPrayer() at instant t.
adhanReport(t, prayerTimes) ==
    IF t >= prayerTimes.isha THEN <<"isha", "none">>
    ELSE IF t >= prayerTimes.maghrib THEN <<"maghrib", "isha">>
    ELSE IF t >= prayerTimes.asr THEN <<"asr", "maghrib">>
    ELSE IF t >= prayerTimes.dhuhr THEN <<"dhuhr", "asr">>
    ELSE IF t >= prayerTimes.sunrise THEN <<"sunrise", "dhuhr">>
    ELSE IF t >= prayerTimes.fajr THEN <<"fajr", "sunrise">>
    ELSE <<"none", "fajr">>

\* new Date() when Date.now() of the cache overlay reads 0: 13:00 UTC on day 0.
CacheEpoch == 13 * Hour

JsonPayload(data) == [kind |-> "json", data |-> data]
TextPayload(raw) == [kind |-> "text", data |-> [raw |-> raw]]

\* ------------------------------------------------------ geocoding cache

\* GeocodingCache.maxSize
maxSize == 1000

\* GeocodingCache.defaultTTL
defaultTTL == 24 * 60 * 60 * 1000

LowerChar(c) == CASE c = "A" -> "a" [] c = "B" -> "b" [] OTHER -> c

\* String.prototype.trim
RECURSIVE Trim(_)
Trim(s) ==
    IF s = <<>> THEN s
    ELSE IF s[1] = " " THEN Trim(Tail(s))
    ELSE IF s[Len(s)] = " " THEN Trim(SubSeq(s, 1, Len(s) - 1))
    ELSE s

\* const cacheKey = query.toLowerCase().trim()
geocodingKey(query) == Trim([i \in 1..Len(query) |-> LowerChar(query[i])])

\* GeocodingCache.get(key) at Date.now() = t: the result found (the empty
\* sequence for null) and the cache it leaves, an expired entry deleted.
geocodingGet(cache, key, t) ==
    LET at == {i \in 1..Len(cache) : cache[i].key = key}
    IN  IF at = {} THEN [result |-> <<>>, cache |-> cache]
        ELSE LET i == CHOOSE k \in at : TRUE
             IN  IF t - cache[i].timestamp > cache[i].ttl
                 THEN [result |-> <<>>,
                       cache |-> SubSeq(cache, 1, i - 1) \o SubSeq(cache, i + 1, Len(cache))]
                 ELSE [result |-> <<cache[i].result>>, cache |-> cache]

\* GeocodingCache.set(key, result) at Date.now() = t with every full cache
\* losing its first-inserted entry, whatever its key.
geocodingSet_AnyOldestKey(cache, key, result, t) ==
    LET kept == IF Len(cache) >= maxSize THEN Tail(cache) ELSE cache
        entry == [key |-> key, result |-> result, timestamp |-> t, ttl |-> defaultTTL]
        at == {i \in 1..Len(kept) : kept[i].key = key}
    IN  IF at = {} THEN Append(kept, entry)
        ELSE [kept EXCEPT ![CHOOSE k \in at : TRUE] = entry]

\* GeocodingCache.set(key, result) at Date.now() = t: a full cache loses its
\* first-inserted entry if (oldestKey), that is unless that entry's key is the
\* empty string; then the entry is put under key (a key already there keeps
\* its place in the insertion order).
geocodingSet(cache, key, result, t) ==
    LET kept == IF Len(cache) >= maxSize /\ cache[1].key # <<>> THEN Tail(cache) ELSE cache
        entry == [key |-> key, result |-> result, timestamp |-> t, ttl |-> defaultTTL]
        at == {i \in 1..Len(kept) : kept[i].key = key}
    IN  IF at = {} THEN Append(kept, entry)
        ELSE [kept EXCEPT ![CHOOSE k \in at : TRUE] = entry]

\* ------------------------------------------------- prayer-times handler

\* What googleGeocoder.geocode(query) does: it resolves the location, its
\* first result has no coordinates, it finds nothing, or it throws.
GoogleBehaviours == {"ok", "nocoordinates", "empty", "error"}

\* The messages of the errors geocodeWithCache throws (up to the query).
Chars_GeocodingFailedFor ==
    <<"G", "e", "o", "c", "o", "d", "i", "n", "g", " ", "f", "a", "i", "l", "e", "d", " ",
      "f", "o", "r", " ">>
Chars_NoResultsFoundFor ==
    <<"N", "o", " ", "g", "e", "o", "c", "o", "d", "i", "n", "g", " ", "r", "e", "s", "u",
      "l", "t", "s", " ", "f", "o", "u", "n", "d", " ", "f", "o", "r", " ">>

\* The text the handler's catch block looks for in an error's message.
Chars_geocodingFailed ==
    <<"g", "e", "o", "c", "o", "d", "i", "n", "g", " ", "f", "a", "i", "l", "e", "d">>

\* geocodeWithCache(query) after its cache lookup found `cached` (the empty
\* sequence for a miss): the result list it returns or the message of the
\* error it throws, whether the Google geocoder was called, and the result it
\* puts into the cache (none: the empty sequence).
geocodeWithCache(query, cached, google) ==
    IF Len(cached) > 0
    THEN [threw |-> FALSE, message |-> <<>>, result |-> cached[1], called |-> FALSE,
          stored |-> <<>>]
    ELSE IF google = "ok" \/ google = "nocoordinates"
    THEN LET googleResult == <<[query |-> query, coordinates |-> (google = "ok")]>>
         IN  [threw |-> FALSE, message |-> <<>>, result |-> googleResult, called |-> TRUE,
              stored |-> <<googleResult>>]
    ELSE IF google = "empty"
    THEN [threw |-> TRUE, message |-> Chars_NoResultsFoundFor \o query, result |-> <<>>,
          called |-> TRUE, stored |-> <<>>]
    ELSE [threw |-> TRUE, message |-> Chars_GeocodingFailedFor \o query, result |-> <<>>,
          called |-> TRUE, stored |-> <<>>]

\* The location the handler works with: the path location, or else getQuery's.
queryOf(request) ==
    LET pathLocation == pathLocationOf(request.url)
    IN  IF pathLocation # <<>> THEN pathLocation
        ELSE getQuery(request.query, request.params)

ErrorPayload(error) == JsonPayload([error |-> error])

\* The prayer-times route handler at Date.now() = t, its geocoding cache lookup
\* having found `cached`, the Google geocoder behaving as `google` and geo-tz
\* finding a zone or not: the status and the payload it sends, the number of
\* replies it sends, the collaborators it calls in order (with the location it
\* hands them) and the geocoder result that goes into the geocoding cache.
handlerRun(request, cached, google, zoneFound, t) ==
    LET query == queryOf(request)
        geo == geocodeWithCache(query, cached, google)
        geoCalls == <<[fn |-> "geocodeWithCache", query |-> query]>>
                       \o (IF geo.called THEN <<[fn |-> "googleGeocoder.geocode",
                                                 query |-> query]>> ELSE <<>>)
        zone == ZoneOfLocation(query)
        lib == adhanReport(CacheEpoch + t,
                           adjustAsr(PrayerTimesOf(zone, toZonedTime(CacheEpoch + t, zone)),
                                     request.query.asr_adjustment))
        Reply(code, payload, calls) ==
            [statusCode |-> code, payload |-> payload, replies |-> 1, calls |-> calls,
             stored |-> geo.stored]
    IN  IF query = <<>>
        THEN [statusCode |-> 400, payload |-> ErrorPayload("No location provided"),
              replies |-> 1, calls |-> <<>>, stored |-> <<>>]
        ELSE IF geo.threw
        THEN IF Includes(geo.message, Chars_geocodingFailed)
             THEN Reply(400, ErrorPayload("Location Not Found"), geoCalls)
             ELSE Reply(500, ErrorPayload("Internal Server Error"), geoCalls)
        ELSE IF Len(geo.result) = 0
        THEN Reply(400, ErrorPayload("Location Not Found"), geoCalls)
        ELSE IF ~geo.result[1].coordinates
        THEN Reply(400, ErrorPayload("Coordinates Not Found"), geoCalls)
        ELSE IF ~zoneFound
        THEN Reply(400, ErrorPayload("Timezone Information Not Found"),
                   geoCalls \o <<[fn |-> "find", query |-> query]>>)
        ELSE Reply(200,
                   JsonPayload(responseSummary(query, request.query, CacheEpoch + t, zone,
                                               lib[1], lib[2])),
                   geoCalls \o <<[fn |-> "find", query |-> query]>>)

\* How a call of the prayer-times handler can end in the cache overlay's
\* model: the Google geocoder resolves the location, its first result has no
\* coordinates, or it throws.
PrayerOutcomes == {"ok", "nocoordinates", "error"}

\* The prayer-times route handler: the status and the payload it sends, and
\* the geocoder result that goes into the geocoding cache.
prayerTimesHandler(request, cached, outcome, t) ==
    LET run == handlerRun(request, cached, outcome, TRUE, t)
    IN  [statusCode |-> run.statusCode, payload |-> run.payload, stored |-> run.stored]

\* How a call of another cached route's handler can end: a JSON object, a
\* body that is not JSON, or an error.
GenericOutcomes == {"json", "text", "error"}

\* The handler of another cached route.
genericHandler(request, outcome, t) ==
    IF outcome = "json"
    THEN [statusCode |-> 200, payload |-> JsonPayload([status |-> "ok", timestamp |-> t]),
          stored |-> <<>>]
    ELSE IF outcome = "text"
    THEN [statusCode |-> 200, payload |-> TextPayload("<html>"), stored |-> <<>>]
    ELSE [statusCode |-> 500, payload |-> JsonPayload([error |-> "Internal Server Error"]),
          stored |-> <<>>]

OutcomesOf(route) == IF route.url = "/prayer-times/:q?" THEN PrayerOutcomes ELSE GenericOutcomes

\* originalHandler.call(this.server, request, reply)
originalHandler(request, cached, outcome, t) ==
    IF request.route.url = "/prayer-times/:q?"
    THEN prayerTimesHandler(request, cached, outcome, t)
    ELSE genericHandler(request, outcome, t)

\* ----------------------------------------------------- the cache overlay

Chars_GET == <<"G", "E", "T">>

\* `${request.method}:${request.url}`
defaultCacheKey(request) == Chars_GET \o <<":">> \o request.url

\* The lookup with the request's own url as the key on every route.
lookupCacheKey_RawUrl(request) == defaultCacheKey(request)

\* The cache key the wrapped handler looks up.
lookupCacheKey(request) ==
    IF request.route.url = "/prayer-times/:q?"
    THEN LET pathLocation == pathLocationOf(request.url)
         IN  IF pathLocation # <<>>
             THEN Chars_GET \o <<":">> \o Chars_PrayerTimes \o <<"/">> \o pathLocation
             ELSE defaultCacheKey(request)
    ELSE defaultCacheKey(request)

\* The freshness test with an entry still served at the age of the TTL.
isFresh_Inclusive(entry, t, route) ==
    /\ Len(entry) > 0
    /\ (t - entry[1].timestamp) <= (cacheDuration(route) * 1000)

\* cacheEntry && (now - cacheEntry.timestamp) < (cacheDuration * 1000), the
\* entry given as the empty sequence when the map has none.
isFresh(entry, t, route) ==
    /\ Len(entry) > 0
    /\ (t - entry[1].timestamp) < (cacheDuration(route) * 1000)

\* The cached response with the age left in milliseconds.
cachedResponse_AgeInMs(cacheEntry, t) ==
    Spread(cacheEntry.data, [_cached |-> TRUE, _cache_age |-> t - cacheEntry.timestamp])

\* { ...cacheEntry.data, _cached: true, _cache_age: Math.floor((now - cacheEntry.timestamp) / 1000) }
cachedResponse(cacheEntry, t) ==
    Spread(cacheEntry.data,
           [_cached |-> TRUE, _cache_age |-> (t - cacheEntry.timestamp) \div 1000])

\* this.routeCache.get(cacheKey)
cacheGet(cache, key) == IF key \in DOMAIN cache THEN <<cache[key]>> ELSE <<>>

\* this.routeCache.set(cacheKey, entry)
cacheSet(cache, key, entry) == (key :> entry) @@ cache

\* The onSend hook without the try/catch around JSON.parse.
onSend_NoCatch(cache, request, customCacheKey, statusCode, payload, t) ==
    LET cacheKey == IF Len(customCacheKey) > 0 THEN customCacheKey[1]
                    ELSE defaultCacheKey(request)
    IN  IF statusCode >= 200 /\ statusCode < 300
        THEN IF payload.kind = "json"
             THEN [cache |-> cacheSet(cache, cacheKey, [data |-> payload.data, timestamp |-> t]),
                   stored |-> <<cacheKey>>, payload |-> payload, threw |-> FALSE]
             ELSE [cache |-> cache, stored |-> <<>>, payload |-> payload, threw |-> TRUE]
        ELSE [cache |-> cache, stored |-> <<>>, payload |-> payload, threw |-> FALSE]

\* The onSend hook without the test of the status code.
onSend_AnyStatus(cache, request, customCacheKey, statusCode, payload, t) ==
    LET cacheKey == IF Len(customCacheKey) > 0 THEN customCacheKey[1]
                    ELSE defaultCacheKey(request)
    IN  IF payload.kind = "json"
        THEN [cache |-> cacheSet(cache, cacheKey, [data |-> payload.data, timestamp |-> t]),
              stored |-> <<cacheKey>>, payload |-> payload, threw |-> FALSE]
        ELSE [cache |-> cache, stored |-> <<>>, payload |-> payload, threw |-> FALSE]

\* The route's onSend hook: the cache it leaves, the key it stored under (if
\* any), the payload it returns and whether it threw.  customCacheKey is the
\* empty sequence when the wrapped handler did not set it.  JSON.parse throws
\* on a body that is not JSON; the catch block logs and goes on.
onSend(cache, request, customCacheKey, statusCode, payload, t) ==
    LET cacheKey == IF Len(customCacheKey) > 0 THEN customCacheKey[1]
                    ELSE defaultCacheKey(request)
    IN  IF statusCode >= 200 /\ statusCode < 300
        THEN IF payload.kind = "json"
             THEN [cache |-> cacheSet(cache, cacheKey, [data |-> payload.data, timestamp |-> t]),
                   stored |-> <<cacheKey>>, payload |-> payload, threw |-> FALSE]
             ELSE [cache |-> cache, stored |-> <<>>, payload |-> payload, threw |-> FALSE]
        ELSE [cache |-> cache, stored |-> <<>>, payload |-> payload, threw |-> FALSE]

\* Date.now() advances.
Tick(d) ==
    /\ nticks < MaxTicks
    /\ clock' = clock + d
    /\ nticks' = nticks + 1
    /\ event' = [type |-> "tick"]
    /\ UNCHANGED <<routeCache, nreq, inflight, universe, fileCache, lastOk, geocodingCache, prayerVars>>

\* The wrapped route.handler receives a request: a fresh entry is sent back
\* (and passes through the onSend hook), otherwise the original handler is
\* called, looks the location up in the geocoding cache and suspends at its
\* first await.
Arrive(request) ==
    LET cacheKey == lookupCacheKey(request)
        cacheEntry == cacheGet(routeCache, cacheKey)
        hit == isFresh(cacheEntry, clock, request.route)
        response == JsonPayload(cachedResponse(cacheEntry[1], clock))
        sent == onSend(routeCache, request, <<>>, 200, response, clock)
        query == IF request.route.url = "/prayer-times/:q?" THEN queryOf(request) ELSE <<>>
        looked == IF query # <<>> THEN geocodingGet(geocodingCache, geocodingKey(query), clock)
                  ELSE [result |-> <<>>, cache |-> geocodingCache]
        arrival == [type |-> "arrive", request |-> request, cacheKey |-> cacheKey,
                    at |-> clock, entry |-> cacheEntry,
                    okBefore |-> IF request.form = "path" THEN lastOk[request.location]
                                 ELSE <<>>]
    IN  /\ nreq < MaxRequests
        /\ request \in universe
        /\ nreq' = nreq + 1
        /\ IF hit
           THEN /\ routeCache' = sent.cache
                /\ event' = arrival @@
                       [invoked |-> FALSE,
                        reply |-> <<[statusCode |-> IF sent.threw THEN 500 ELSE 200,
                                     payload |-> sent.payload]>>]
                /\ UNCHANGED <<inflight, geocodingCache>>
           ELSE /\ Len(inflight) < MaxInflight
                /\ inflight' = Append(inflight, [request |-> request,
                                                 customCacheKey |-> <<cacheKey>>,
                                                 cached |-> looked.result])
                /\ geocodingCache' = looked.cache
                /\ event' = arrival @@ [invoked |-> TRUE, reply |-> <<>>]
                /\ UNCHANGED routeCache
        /\ UNCHANGED <<clock, nticks, universe, fileCache, lastOk, prayerVars>>

RemoveAt(s, i) == SubSeq(s, 1, i - 1) \o SubSeq(s, i + 1, Len(s))

\* What the step of a reply of the original handler is remembered by.
DoneEvent(p, result, sent) ==
    [type |-> "done", request |-> p.request, at |-> clock,
     handlerStatus |-> result.statusCode, handlerPayload |-> result.payload,
     statusCode |-> IF sent.threw THEN 500 ELSE result.statusCode,
     payload |-> sent.payload, threw |-> sent.threw, stored |-> sent.stored]

\* The reply `result` of the original handler to the suspended request p has
\* passed through the onSend hook, which did `sent`.
Replied(i, p, result, sent) ==
    /\ geocodingCache' =
           IF Len(result.stored) > 0
           THEN geocodingSet(geocodingCache, geocodingKey(queryOf(p.request)),
                             result.stored[1], clock)
           ELSE geocodingCache
    /\ routeCache' = sent.cache
    /\ inflight' = RemoveAt(inflight, i)
    /\ event' = DoneEvent(p, result, sent)
    /\ lastOk' = IF p.request.form = "path" /\ ~sent.threw /\ result.statusCode = 200
                 THEN [lastOk EXCEPT ![p.request.location] =
                          <<[at |-> clock, url |-> p.request.url, stored |-> sent.stored,
                             payload |-> sent.payload]>>]
                 ELSE lastOk
    /\ UNCHANGED <<clock, nticks, nreq, universe, fileCache, prayerVars>>

\* The reply `result` of the original handler passes through the onSend hook.
Sent(i, p, result) ==
    Replied(i, p, result,
            onSend(routeCache, p.request, p.customCacheKey, result.statusCode,
                   result.payload, clock))

\* The original handler of the i-th suspended request replies; the reply
\* passes through the onSend hook.
Complete(i, outcome) ==
    /\ i \in 1..Len(inflight)
    /\ outcome \in OutcomesOf(inflight[i].request.route)
    /\ Len(inflight[i].cached) > 0 => outcome = "ok"
    /\ Sent(i, inflight[i],
            originalHandler(inflight[i].request, inflight[i].cached, outcome, clock))

Init ==
    /\ routeCache = <<>>
    /\ clock = 0
    /\ nticks = 0
    /\ nreq = 0
    /\ inflight = <<>>
    /\ universe \in RequestUniverses
    /\ fileCache = <<>>
    /\ event = [type |-> "init"]
    /\ lastOk = [l \in PathLocations |-> <<>>]
    /\ geocodingCache = <<>>
    /\ now = CacheEpoch
    /\ timezoneId = "Europe/London"
    /\ view = <<>>

Next ==
    \/ \E d \in Ticks : Tick(d)
    \/ \E request \in UNION RequestUniverses : Arrive(request)
    \/ \E i \in 1..MaxInflight, outcome \in PrayerOutcomes \cup GenericOutcomes :
           Complete(i, outcome)

Spec == Init /\ [][Next]_vars

\* ------------------------------------------- the schedule resolver at work

HalfHour == 30 * Minute

\* The first now of a behaviour: 26 hours before day 0.
NowStart == -(26 * Hour)

\* The amounts by which now advances between two requests.
PrayerTicks == {HalfHour, 6 * Hour}

NoFlags == [asr_adjustment |-> "", highlight |-> ""]

\* The location string a zone of the model is asked for with.
LocationOf(zone) ==
    CASE zone = "Europe/London" -> <<"A">>
      [] zone = "Asia/Karachi" -> <<"B">>
      [] zone = "America/New_York" -> <<"A", " ", "B">>
      [] zone = "Pacific/Tongatapu" -> <<"A", ",", "B">>

\* The view of a response: the inputs it was computed from, the response, and
\* the duration each countdown string was made of (the absDiffMs of
\* formatTimeDifference).
ViewOf(t, zone, libCurrent, libNext, response) ==
    [now |-> t,
     localNow |-> toZonedTime(t, zone),
     libCurrent |-> libCurrent,
     libNext |-> libNext,
     left_ms |-> [p \in PrayerNames |->
         Abs(TimeDifferenceMs(response.times_in_utc[p], toZonedTime(t, zone), zone))],
     response |-> response]

\* One request that reaches the schedule resolver at now + d, the library
\* reporting libCurrent and libNext.
PrayerRequest(d, libCurrent, libNext) ==
    /\ now + d <= NowStart + MaxHalfHours * HalfHour
    /\ now' = now + d
    /\ view' = <<ViewOf(now', timezoneId, libCurrent, libNext,
                        prayerTimesResponse(LocationOf(timezoneId), NoFlags, now',
                                            timezoneId, libCurrent, libNext))>>
    /\ UNCHANGED <<timezoneId, cacheVars>>

PrayerInit ==
    /\ now = NowStart
    /\ timezoneId \in ZoneIds
    /\ view = <<>>
    /\ routeCache = <<>>
    /\ clock = 0
    /\ nticks = 0
    /\ nreq = 0
    /\ inflight = <<>>
    /\ universe = {}
    /\ fileCache = <<>>
    /\ event = [type |-> "init"]
    /\ lastOk = [l \in PathLocations |-> <<>>]
    /\ geocodingCache = <<>>

PrayerNext == \E d \in PrayerTicks, lib \in LibReports : PrayerRequest(d, lib[1], lib[2])

PrayerSpec == PrayerInit /\ [][PrayerNext]_vars


\* ------------------------------------------- claims about the cache overlay

\* The TTL of the route a request is for, in milliseconds (its duration is
\* given in seconds).
TtlMs(request) == request.route.cache.duration * 1000

\* The age, at the arrival the last step made, of the entry it found.
ArrivalAge == event.at - event.entry[1].timestamp

Annotations == {"_cached", "_cache_age"}

\* C1: a request that finds an entry younger than the TTL under its key is
\* answered without a call of the original handler, with status 200 and the
\* stored payload in which exactly _cached = true and
\* _cache_age = floor(age / 1000) are added or overwritten.
C1_FreshEntryServedAnnotated ==
    (event.type = "arrive" /\ Len(event.entry) > 0 /\ ArrivalAge < TtlMs(event.request))
        => /\ event.invoked = FALSE
           /\ Len(event.reply) = 1
           /\ event.reply[1].statusCode = 200
           /\ LET stored == event.entry[1].data
                  sent == event.reply[1].payload.data
              IN  /\ DOMAIN sent = DOMAIN stored \cup Annotations
                  /\ \A f \in DOMAIN stored \ Annotations : sent[f] = stored[f]
                  /\ sent._cached = TRUE
                  /\ sent._cache_age = ArrivalAge \div 1000

\* C1's case: an entry 44.5 s old is served with _cache_age 44.
C1_Witness ==
    /\ event.type = "arrive"
    /\ Len(event.entry) > 0
    /\ ArrivalAge = 44500
    /\ event.invoked = FALSE
    /\ event.reply[1].payload.data._cache_age = 44

\* C2: the cache changes only in a step in which the original handler replies
\* with a 2xx status; no other step, a reply served from the cache included,
\* creates an entry or changes one.
C2_OnlyHandlerRepliesWrite ==
    [][routeCache' # routeCache
          => /\ event'.type = "done"
             /\ event'.handlerStatus >= 200
             /\ event'.handlerStatus < 300]_vars

\* C3: a request that finds an entry whose age is the TTL or more calls the
\* original handler, and a request is answered from the cache only when it
\* found an entry younger than the TTL.
C3_ExpiredEntryIsAbsent ==
    event.type = "arrive"
        => /\ (Len(event.entry) > 0 /\ ArrivalAge >= TtlMs(event.request))
                  => (event.invoked = TRUE /\ event.reply = <<>>)
           /\ event.invoked = FALSE
                  => (Len(event.entry) > 0 /\ ArrivalAge < TtlMs(event.request))

\* C3's case: an entry exactly as old as the TTL is passed over.
C3_Witness ==
    /\ event.type = "arrive"
    /\ Len(event.entry) > 0
    /\ ArrivalAge = TtlMs(event.request)
    /\ event.invoked = TRUE

C5_ParseFailureSwallowed ==
    [][(/\ event'.type = "done"
        /\ event'.handlerStatus >= 200
        /\ event'.handlerStatus < 300
        /\ event'.handlerPayload.kind = "text")
          => /\ routeCache' = routeCache
             /\ event'.statusCode = event'.handlerStatus
             /\ event'.payload = event'.handlerPayload
             /\ event'.threw = FALSE]_vars

\* C5's case: a 200 reply that is not JSON has passed through the hook while
\* the cache held an entry.
C5_Witness ==
    /\ event.type = "done"
    /\ event.handlerStatus = 200
    /\ event.handlerPayload.kind = "text"
    /\ DOMAIN routeCache # {}

\* ------------------------------------------------ schedule resolver: claims

\* The five canonical boundaries of the last response, converted to the zone.
LocalBoundary(p) == toZonedTime(view[1].response.times_in_utc[p], timezoneId)

BoundariesOrdered ==
    /\ LocalBoundary("fajr") < LocalBoundary("dhuhr")
    /\ LocalBoundary("dhuhr") < LocalBoundary("asr")
    /\ LocalBoundary("asr") < LocalBoundary("maghrib")
    /\ LocalBoundary("maghrib") < LocalBoundary("isha")

\* C6: with ordered boundaries, determineCurrentPrayer (called when the library
\* reports none) returns one canonical label: the one whose half-open interval
\* [boundary, next boundary) holds the zoned now, and isha before fajr and
\* at or after isha.
C6_ActivePrayerByInterval ==
    (Len(view) > 0 /\ view[1].libCurrent = "none" /\ BoundariesOrdered) =>
        LET n == view[1].localNow
            r == view[1].response.current_prayer
        IN  /\ r \in Canonical
            /\ (LocalBoundary("fajr") <= n /\ n < LocalBoundary("dhuhr")) => r = "fajr"
            /\ (LocalBoundary("dhuhr") <= n /\ n < LocalBoundary("asr")) => r = "dhuhr"
            /\ (LocalBoundary("asr") <= n /\ n < LocalBoundary("maghrib")) => r = "asr"
            /\ (LocalBoundary("maghrib") <= n /\ n < LocalBoundary("isha")) => r = "maghrib"
            /\ (n < LocalBoundary("fajr") \/ n >= LocalBoundary("isha")) => r = "isha"

\* C6 witness: the library reports none at the very instant of dhuhr, and the
\* handler answers dhuhr.
C6_Witness ==
    /\ Len(view) > 0
    /\ view[1].libCurrent = "none"
    /\ BoundariesOrdered
    /\ view[1].localNow = LocalBoundary("dhuhr")
    /\ view[1].response.current_prayer = "dhuhr"

CanonicalOrder == <<"fajr", "dhuhr", "asr", "maghrib", "isha">>

\* C7: with ordered boundaries, determineUpcomingPrayer (called when the library
\* reports none) returns the first canonical prayer whose boundary is strictly
\* after the zoned now, and fajr when there is none (now at or after isha); a
\* now equal to a boundary gives the prayer after that boundary's own.
C7_UpcomingPrayerIsFirstAfterNow ==
    (Len(view) > 0 /\ view[1].libNext = "none" /\ BoundariesOrdered) =>
        LET n == view[1].localNow
            r == view[1].response.upcoming_prayer
            later == {i \in 1..5 : LocalBoundary(CanonicalOrder[i]) > n}
        IN  /\ later = {} => r = "fajr"
            /\ later # {} => r = CanonicalOrder[CHOOSE i \in later : \A j \in later : i <= j]
            /\ \A i \in 1..5 : n = LocalBoundary(CanonicalOrder[i]) =>
                   r = CanonicalOrder[IF i = 5 THEN 1 ELSE i + 1]

\* C7 witness: the library reports none at the very instant of dhuhr, and the
\* handler announces asr.
C7_Witness ==
    /\ Len(view) > 0
    /\ view[1].libNext = "none"
    /\ BoundariesOrdered
    /\ view[1].localNow = LocalBoundary("dhuhr")
    /\ view[1].response.upcoming_prayer = "asr"

\* C8: every 200 response names a canonical prayer as current_prayer and as
\* upcoming_prayer, whatever the library reports.
C8_LabelsAlwaysCanonical ==
    Len(view) > 0 =>
        /\ view[1].response.current_prayer \in Canonical
        /\ view[1].response.upcoming_prayer \in Canonical

\* C9: the duration every countdown string is made of lies in [0, 24h).
C9_CountdownWithinDay ==
    Len(view) > 0 =>
        \A p \in PrayerNames : 0 <= view[1].left_ms[p] /\ view[1].left_ms[p] < Day

\* C10: between two responses computed for the same prayer instant, the later
\* now gives no larger a countdown while it is not after the instant, 0 at the
\* instant, 24h minus the elapsed time when it is the first now after the
\* instant, and no larger a countdown from there on.
C10_CountdownDecreasesThenWraps ==
    [][(Len(view) > 0 /\ Len(view') > 0) =>
        \A p \in PrayerNames :
            LET t == view[1].response.times_in_utc[p]
                t2 == view'[1].response.times_in_utc[p]
                left == view[1].left_ms[p]
                left2 == view'[1].left_ms[p]
            IN  t = t2 =>
                  /\ view'[1].now <= t => left2 <= left
                  /\ view'[1].now = t => left2 = 0
                  /\ (view[1].now <= t /\ t < view'[1].now) => left2 = Day - (view'[1].now - t)
                  /\ t < view[1].now => left2 <= left]_vars


\* --------------------------------------------- the duration formatter at work

\* The decimal digits of a natural number, as characters.
DigitChar(d) ==
    CASE d = 0 -> "0" [] d = 1 -> "1" [] d = 2 -> "2" [] d = 3 -> "3" [] d = 4 -> "4"
      [] d = 5 -> "5" [] d = 6 -> "6" [] d = 7 -> "7" [] d = 8 -> "8" [] d = 9 -> "9"

\* String(n) for a natural number n, as a sequence of characters.
RECURSIVE Digits(_)
Digits(n) == IF n < 10 THEN <<DigitChar(n)>> ELSE Digits(n \div 10) \o <<DigitChar(n % 10)>>

\* s.replace(sub, ""): the first occurrence of sub is removed.
RemoveFirst(s, sub) ==
    IF Includes(s, sub)
    THEN LET i == CHOOSE k \in 1..(Len(s) - Len(sub) + 1) :
                      /\ SubSeq(s, k, k + Len(sub) - 1) = sub
                      /\ \A j \in 1..(k - 1) : SubSeq(s, j, j + Len(sub) - 1) # sub
         IN  SubSeq(s, 1, i - 1) \o SubSeq(s, i + Len(sub), Len(s))
    ELSE s

\* s.replace(/-/g, "")
RemoveDashes(s) == SelectSeq(s, LAMBDA c : c # "-")

\* TimeCalculator.formatTimeDifference of the route file that geocodes with
\* NodeGeocoder itself, for diffMs >= 0:
\* `${diffHours}h ${diffMinutes}m`.replace(/-/g, "").replace("0h ", "")
formatTimeDifference_part001(diffMs) ==
    LET diffHours == diffMs \div (1000 * 60 * 60)
        diffMinutes == (diffMs % (1000 * 60 * 60)) \div (1000 * 60)
    IN  RemoveFirst(RemoveDashes(Digits(diffHours) \o <<"h", " ">> \o Digits(diffMinutes)
                                     \o <<"m">>),
                    <<"0", "h", " ">>)

\* The minute and millisecond parts of the durations handed to the formatter.
FormatMinutes == {0, 5, 12, 59}
FormatMillis == {0, 59999}

Durations ==
    {h * Hour + m * Minute + ms : h \in 0..MaxFormatHours, m \in FormatMinutes,
                                  ms \in FormatMillis}

\* The cache overlay at rest.
CacheIdle ==
    /\ routeCache = <<>>
    /\ clock = 0
    /\ nticks = 0
    /\ nreq = 0
    /\ inflight = <<>>
    /\ universe = {}
    /\ fileCache = <<>>
    /\ event = [type |-> "init"]
    /\ lastOk = [l \in PathLocations |-> <<>>]
    /\ geocodingCache = <<>>

\* One call of formatTimeDifference, in either route file.
FormatCall(d) ==
    /\ view = <<>>
    /\ view' = <<[diffMs |-> d,
                  formatted |-> formatTimeDifference(d),
                  formatted_part001 |-> formatTimeDifference_part001(d)]>>
    /\ UNCHANGED <<now, timezoneId, cacheVars>>

FormatInit ==
    /\ view = <<>>
    /\ now = 0
    /\ timezoneId = "Europe/London"
    /\ CacheIdle

FormatNext == \E d \in Durations : FormatCall(d)

FormatSpec == FormatInit /\ [][FormatNext]_vars

\* C11: a duration d >= 0 is formatted as "{H}h {M}m" with H = floor(d / 3600000)
\* and M = floor((d mod 3600000) / 60000), the hour component left out if and
\* only if H = 0, by the formatter of either route file.
C11_DurationFormat ==
    Len(view) > 0 =>
        LET d == view[1].diffMs
            H == d \div 3600000
            M == (d % 3600000) \div 60000
        IN  /\ view[1].formatted =
                   IF H = 0 THEN <<ToString(M), "m">>
                   ELSE <<ToString(H), "h ", ToString(M), "m">>
            /\ view[1].formatted_part001 =
                   IF H = 0 THEN Digits(M) \o <<"m">>
                   ELSE Digits(H) \o <<"h", " ">> \o Digits(M) \o <<"m">>


\* ------------------------------------------------ the asr adjustment at work

\* The sub-minute parts added to the library's dhuhr and sunset instants.
AsrJitter == {0, 1}

\* One request that reaches the asr adjustment at instant t in zone, the
\* library's dhuhr and sunset jd and js milliseconds past the minute, with or
\* without asr_adjustment=true; the library's labels are those of its
\* (adjusted) instants.
AsrRequest(t, jd, js, flag) ==
    LET times == PrayerTimesOf(timezoneId, toZonedTime(t, timezoneId))
        lib == [times EXCEPT !.dhuhr = @ + jd, !.sunset = @ + js, !.maghrib = @ + js]
        flags == [asr_adjustment |-> flag, highlight |-> ""]
        labels == adhanReport(t, adjustAsr(lib, flag))
    IN  /\ view = <<>>
        /\ now' = t
        /\ view' = <<[now |-> t, lib |-> lib, flags |-> flags,
                      response |-> responseOf(LocationOf(timezoneId), flags, t, timezoneId,
                                              lib, labels[1], labels[2])]>>
        /\ UNCHANGED <<timezoneId, cacheVars>>

AsrInit ==
    /\ view = <<>>
    /\ now = 0
    /\ timezoneId \in ZoneIds
    /\ CacheIdle

AsrNext ==
    \E q \in 0..MaxAsrQuarters, jd \in AsrJitter, js \in AsrJitter, flag \in {"", "true"} :
        AsrRequest(q * 15 * Minute, jd, js, flag)

AsrSpec == AsrInit /\ [][AsrNext]_vars

\* C12: with asr_adjustment=true the asr instant of the response is the
\* midpoint of the library's dhuhr and sunset in whole milliseconds (half a
\* millisecond dropped when their sum is odd), lies between them, and is the
\* instant that times, times_left and the two labels go by; without the flag
\* it is the library's asr; no other instant changes.
C12_AsrIsMidpoint ==
    Len(view) > 0 =>
        LET lib == view[1].lib
            r == view[1].response
            asr == r.times_in_utc.asr
            localNow == toZonedTime(view[1].now, timezoneId)
        IN  /\ \A p \in PrayerNames \ {"asr"} : r.times_in_utc[p] = lib[p]
            /\ view[1].flags.asr_adjustment = "true" =>
                   /\ 2 * asr <= lib.dhuhr + lib.sunset
                   /\ lib.dhuhr + lib.sunset - 2 * asr <= 1
                   /\ lib.dhuhr <= asr /\ asr <= lib.sunset
            /\ view[1].flags.asr_adjustment # "true" => asr = lib.asr
            /\ r.times.asr = formatClock(toZonedTime(asr, timezoneId))
            /\ r.times_left.asr = computeTimeDifference(asr, localNow, timezoneId)
            /\ (lib.dhuhr <= view[1].now /\ view[1].now < asr)
                   => (r.current_prayer = "dhuhr" /\ r.upcoming_prayer = "asr")
            /\ (asr <= view[1].now /\ view[1].now < lib.maghrib)
                   => (r.current_prayer = "asr" /\ r.upcoming_prayer = "maghrib")

\* C12's case: dhuhr + sunset is odd, the flag is set, and now lies between
\* the midpoint and the library's own asr: the response says asr.
C12_Witness ==
    /\ Len(view) > 0
    /\ view[1].flags.asr_adjustment = "true"
    /\ (view[1].lib.dhuhr + view[1].lib.sunset) % 2 = 1
    /\ view[1].response.times_in_utc.asr <= view[1].now
    /\ view[1].now < view[1].lib.asr
    /\ view[1].response.current_prayer = "asr"

\* ----------------------------------------------- the route handler at work

HandlerRequests ==
    {ReqBare, ReqBareSlash, ReqQ, ReqQueryParam, ReqSlashQ, ReqSlashQueryParam,
     ReqSlashQDouble, ReqPathEncoded, ReqPathAndQ, ReqA}

\* The prayer-times handler serves a request from its first line to its
\* reply: the geocoding cache lookup, the Google geocoder behaving as `google`
\* on a miss (its result going into the geocoding cache) and geo-tz finding
\* a zone or not.
Handle(request, google, zoneFound) ==
    LET query == queryOf(request)
        looked == IF query # <<>>
                  THEN geocodingGet(geocodingCache, geocodingKey(query), clock)
                  ELSE [result |-> <<>>, cache |-> geocodingCache]
        run == handlerRun(request, looked.result, google, zoneFound, clock)
    IN  /\ nreq < MaxHandled
        /\ nreq' = nreq + 1
        /\ geocodingCache' =
               IF Len(run.stored) > 0
               THEN geocodingSet(looked.cache, geocodingKey(query), run.stored[1], clock)
               ELSE looked.cache
        /\ view' = <<[request |-> request, google |-> google, zoneFound |-> zoneFound,
                      cached |-> looked.result, run |-> run]>>
        /\ UNCHANGED <<routeCache, clock, nticks, inflight, universe, fileCache, event, lastOk, now,
                       timezoneId>>

HandlerInit ==
    /\ CacheIdle
    /\ now = CacheEpoch
    /\ timezoneId = "Europe/London"
    /\ view = <<>>

HandlerNext ==
    \E request \in HandlerRequests, google \in GoogleBehaviours, zoneFound \in BOOLEAN :
        Handle(request, google, zoneFound)

HandlerSpec == HandlerInit /\ [][HandlerNext]_vars

\* The collaborators the last handled request reached.
CalledFns == {view[1].run.calls[i].fn : i \in 1..Len(view[1].run.calls)}

\* C13: a request with no location in the path segment and none in q/query
\* (/prayer-times and /prayer-times/ alike) is answered 400 "No location
\* provided", and neither the geocoder nor the timezone lookup is called.
C13_NoLocationIs400 ==
    (Len(view) > 0 /\ view[1].request.form = "none")
        => /\ view[1].run.statusCode = 400
           /\ view[1].run.payload.data.error = "No location provided"
           /\ view[1].run.calls = <<>>

\* The location a request names, by the words of the interface: the decoded
\* path segment (Fastify's params.q), or else the decoded q or query parameter
\* (Fastify's parsed query string), decoded once more when it still holds
\* %20, %2C or %2B.
NamedLocation(request) ==
    IF request.form = "path" THEN request.params.q
    ELSE LET v == IF request.query.q # <<>> THEN request.query.q ELSE request.query.query
         IN  IF \/ Includes(v, <<"%", "2", "0">>)
                \/ Includes(v, <<"%", "2", "C">>)
                \/ Includes(v, <<"%", "2", "B">>)
             THEN decodeURIComponent(v)
             ELSE v

\* C14: for a request with the location in q or query and no path segment
\* (GET /prayer-times?q=<location>), the geocoder is handed the decoded value
\* of the parameter, decoded once more when it still holds %20, %2C or %2B;
\* for a request with a path segment it is handed the decoded path segment.
C14_GeocoderGetsNamedLocation ==
    (Len(view) > 0 /\ view[1].request.form # "none")
        => /\ Len(view[1].run.calls) > 0
           /\ view[1].run.calls[1].fn = "geocodeWithCache"
           /\ view[1].run.calls[1].query = NamedLocation(view[1].request)

\* C15: when the geocoder finds nothing for the location, or fails with its
\* "Geocoding failed" error, the handler answers 400 "Location Not Found",
\* never 500.
C15_NoMatchIs400 ==
    (/\ Len(view) > 0
     /\ view[1].google \in {"empty", "error"}
     /\ "googleGeocoder.geocode" \in CalledFns)
        => /\ view[1].run.statusCode = 400
           /\ view[1].run.payload.data.error = "Location Not Found"

\* ------------------------------- further claims about the cache overlay

\* The last step sent a 200 reply to a request for the prayer-times route,
\* from the cache or from the original handler.
PrayerReplySent ==
    /\ event.type \in {"arrive", "done"}
    /\ event.request.route.url = "/prayer-times/:q?"
    /\ IF event.type = "arrive" THEN Len(event.reply) = 1 /\ event.reply[1].statusCode = 200
       ELSE event.statusCode = 200

\* The status_string of that reply.
SentStatusString ==
    IF event.type = "arrive" THEN event.reply[1].payload.data.status_string
    ELSE event.payload.data.status_string

CapitalizedLabels == {UpperFirst(p) : p \in PrayerNames \cup {"none"}}

\* C16: through the cache overlay, the status_string of every 200 response of
\* the prayer-times route reads "It's currently {Active}. {Next} in
\* {countdown}." with capitalized labels, and the two labels are wrapped in **
\* exactly when the request the response answers carries highlight=true.
C16_HighlightFollowsRequest ==
    PrayerReplySent =>
        LET s == SentStatusString
        IN  /\ s[1] = "It's currently "
            /\ s[Len(s)] = "."
            /\ IF event.request.query.highlight = "true"
               THEN /\ Len(s) >= 10
                    /\ <<s[2], s[4], s[6], s[8]>> = <<"**", "**", "**", "**">>
                    /\ s[3] \in CapitalizedLabels
                    /\ s[5] = ". "
                    /\ s[7] \in CapitalizedLabels
                    /\ s[9] = " in "
               ELSE /\ Len(s) >= 6
                    /\ s[2] \in CapitalizedLabels
                    /\ s[3] = ". "
                    /\ s[4] \in CapitalizedLabels
                    /\ s[5] = " in "

\* ------------------------------------- further claims about the resolver

\* The zoned now of the last response lies in the interval of the i-th
\* canonical prayer: [its boundary, the next boundary), isha's running from
\* its boundary over midnight to fajr's.
InInterval(i) ==
    LET n == view[1].localNow
    IN  IF i = 5 THEN n >= LocalBoundary("isha") \/ n < LocalBoundary("fajr")
        ELSE LocalBoundary(CanonicalOrder[i]) <= n /\ n < LocalBoundary(CanonicalOrder[i + 1])

\* C17: with fajr < dhuhr < asr < maghrib < isha, every now lies in exactly one
\* of the five half-open intervals, determineCurrentPrayer names that interval,
\* and determineUpcomingPrayer names the interval that follows it: fajr after
\* isha.
C17_NextFollowsActive ==
    (Len(view) > 0 /\ BoundariesOrdered) =>
        LET times == view[1].response.times_in_utc
            active == determineCurrentPrayer(view[1].localNow, times, timezoneId)
            next == determineUpcomingPrayer(view[1].localNow, times, timezoneId)
            holding == {i \in 1..5 : InInterval(i)}
        IN  /\ Cardinality(holding) = 1
            /\ \A i \in holding :
                   /\ active = CanonicalOrder[i]
                   /\ next = CanonicalOrder[IF i = 5 THEN 1 ELSE i + 1]

\* C17's case: at the very instant of isha the handler, the library reporting
\* no next prayer, announces fajr, and the active prayer is isha.
C17_Witness ==
    /\ Len(view) > 0
    /\ BoundariesOrdered
    /\ view[1].localNow = LocalBoundary("isha")
    /\ view[1].libNext = "none"
    /\ view[1].response.upcoming_prayer = "fajr"
    /\ determineCurrentPrayer(view[1].localNow, view[1].response.times_in_utc, timezoneId)
           = "isha"

\* ------------------------------------- further claims about the handler

\* The first validation stage the last handled request fails, by the name of
\* its error: the location is missing, the geocoder has no match (nothing
\* cached and Google finds nothing or throws), the first result has no
\* coordinates, geo-tz finds no zone; the empty string when none fails.
FirstFailedStage ==
    LET v == view[1]
        coordinates == IF Len(v.cached) > 0 THEN v.cached[1][1].coordinates
                       ELSE v.google = "ok"
    IN  IF v.request.form = "none" THEN "No location provided"
        ELSE IF Len(v.cached) = 0 /\ v.google \in {"empty", "error"} THEN "Location Not Found"
        ELSE IF ~coordinates THEN "Coordinates Not Found"
        ELSE IF ~v.zoneFound THEN "Timezone Information Not Found"
        ELSE ""

\* C18: the handler validates input, geocoder match, coordinates and timezone
\* in this order and answers the first failed stage with that stage's 400 and
\* without calling a later collaborator; it answers 500 for no failure that
\* is one of the four, and sends exactly one response.
C18_FirstFailedStageAnswers ==
    Len(view) > 0 =>
        /\ view[1].run.replies = 1
        /\ FirstFailedStage = "" => view[1].run.statusCode = 200
        /\ FirstFailedStage # "" =>
               /\ view[1].run.statusCode = 400
               /\ view[1].run.payload.data.error = FirstFailedStage
        /\ FirstFailedStage = "No location provided" => view[1].run.calls = <<>>
        /\ FirstFailedStage \in {"Location Not Found", "Coordinates Not Found"}
               => "find" \notin CalledFns

\* ------------------------------- the cache overlay and replies of error

\* C19: a reply of the original handler with a status outside 200..299 leaves
\* the cache as it was and is passed on as it is; a reply served from the
\* cache is a 200 that carries no error, taken from an entry younger than the
\* TTL; and a request that finds no such entry calls the original handler.
C19_ErrorRepliesNeverCached ==
    [][/\ (event'.type = "done" /\ ~(event'.handlerStatus >= 200 /\ event'.handlerStatus < 300))
            => /\ routeCache' = routeCache
               /\ event'.statusCode = event'.handlerStatus
               /\ event'.payload = event'.handlerPayload
       /\ (event'.type = "arrive" /\ event'.invoked = FALSE)
            => /\ event'.reply[1].statusCode = 200
               /\ "error" \notin DOMAIN event'.reply[1].payload.data
               /\ Len(event'.entry) > 0
               /\ event'.at - event'.entry[1].timestamp < TtlMs(event'.request)
       /\ (event'.type = "arrive" /\ Len(event'.entry) = 0) => event'.invoked = TRUE
       /\ \A k \in DOMAIN routeCache' : "error" \notin DOMAIN routeCache'[k].data]_vars

\* C19's case: the original handler has replied with an error to a request
\* under whose key the cache holds an entry, a former 200 reply.
C19_Witness ==
    /\ event.type = "done"
    /\ event.handlerStatus = 500
    /\ lookupCacheKey(event.request) \in DOMAIN routeCache
    /\ "error" \notin DOMAIN routeCache[lookupCacheKey(event.request)].data

\* C20: every reply served from the cache carries a payload the original
\* handler produced less than the TTL before, however many requests were
\* served from the cache in between, and its _cache_age is the number of whole
\* seconds since that reply of the handler was stored.
C20_HitsYoungerThanTtl ==
    (/\ event.type = "arrive"
     /\ event.invoked = FALSE
     /\ event.request.form = "path"
     /\ Len(event.okBefore) > 0)
        => /\ event.at - event.okBefore[1].at < TtlMs(event.request)
           /\ event.reply[1].payload.data._cache_age
                  = (event.at - event.okBefore[1].at) \div 1000

\* ------------------------------- the cache overlay and the location asked

\* C21: a reply served from the response cache of the prayer-times route was
\* computed for the location the request names: when a request is answered
\* from the entry the step before stored, a 200 reply of the original handler,
\* the two requests name the same location.
C21_HitIsForSameLocation ==
    [][(/\ event.type = "done"
        /\ event.statusCode = 200
        /\ event.request.route.url = "/prayer-times/:q?"
        /\ event'.type = "arrive"
        /\ event'.invoked = FALSE
        /\ event.stored = <<event'.cacheKey>>)
          => event'.request.location = event.request.location]_vars

\* ------------------------------------------- the elapsed time of a period

\* The duration computeTimeElapsed formats for the last response: the
\* distance between the zoned now and the zoned instant the response reports
\* for its current_prayer.
ElapsedMs ==
    TimeElapsedMs(view[1].response.times_in_utc[view[1].response.current_prayer],
                  view[1].localNow, timezoneId)

\* C22: current_prayer_time_elapsed is the time since the active period began:
\* at least 0, below 24 hours, and, when now is before fajr and the active
\* prayer is isha, now + 24h - isha: the time since the isha of the evening
\* before, not the time until the isha to come.
C22_ElapsedSincePeriodBegan ==
    (/\ Len(view) > 0
     /\ BoundariesOrdered
     /\ view[1].response.current_prayer \in Canonical)
        => /\ view[1].response.current_prayer_time_elapsed = formatTimeDifference(ElapsedMs)
           /\ 0 <= ElapsedMs
           /\ ElapsedMs < Day
           /\ (/\ view[1].localNow < LocalBoundary("fajr")
               /\ view[1].response.current_prayer = "isha")
                  => ElapsedMs = view[1].localNow + Day - LocalBoundary("isha")

\* ------------------------------------------- the geocoding cache at work

\* A geocoder result as the cache stores it.
GeoResult(key) == <<[query |-> key, coordinates |-> TRUE]>>

\* The geocoding cache after n sets of distinct keys at Date.now() = 0, the
\* first of them `first`, the others the numerals 2..n.
Prefilled(first, n) ==
    [i \in 1..n |-> [key |-> IF i = 1 THEN first ELSE Digits(i),
                     result |-> GeoResult(IF i = 1 THEN first ELSE Digits(i)),
                     timestamp |-> 0, ttl |-> defaultTTL]]

\* The keys of the operations: query.toLowerCase().trim() of a query of blanks,
\* of a first-inserted location, of a location in the middle of the cache and
\* of a location not in it.
GeoKeys == {geocodingKey(<<" ">>), geocodingKey(<<"A">>), Digits(2), geocodingKey(<<"B">>)}

\* The advances of Date.now() between two operations: the TTL, and 1 ms.
GeoTicks == {defaultTTL, 1}

GeoSet(key) ==
    /\ nreq < MaxGeoOps
    /\ nreq' = nreq + 1
    /\ geocodingCache' = geocodingSet(geocodingCache, key, GeoResult(key), clock)
    /\ view' = <<[op |-> "set", key |-> key, result |-> <<>>]>>
    /\ UNCHANGED <<routeCache, clock, nticks, inflight, universe, fileCache, event, lastOk, now,
                   timezoneId>>

GeoGet(key) ==
    /\ nreq < MaxGeoOps
    /\ nreq' = nreq + 1
    /\ geocodingCache' = geocodingGet(geocodingCache, key, clock).cache
    /\ view' = <<[op |-> "get", key |-> key,
                  result |-> geocodingGet(geocodingCache, key, clock).result]>>
    /\ UNCHANGED <<routeCache, clock, nticks, inflight, universe, fileCache, event, lastOk, now,
                   timezoneId>>

\* GeocodingCache.clear()
GeoClear ==
    /\ nreq < MaxGeoOps
    /\ nreq' = nreq + 1
    /\ geocodingCache' = <<>>
    /\ view' = <<[op |-> "clear", key |-> <<>>, result |-> <<>>]>>
    /\ UNCHANGED <<routeCache, clock, nticks, inflight, universe, fileCache, event, lastOk, now,
                   timezoneId>>

GeoTick(d) ==
    /\ nticks < MaxTicks
    /\ nticks' = nticks + 1
    /\ clock' = clock + d
    /\ view' = <<[op |-> "tick", key |-> <<>>, result |-> <<>>]>>
    /\ UNCHANGED <<routeCache, nreq, inflight, universe, fileCache, event, lastOk, geocodingCache, now,
                   timezoneId>>

GeoInit ==
    /\ routeCache = <<>>
    /\ clock = 0
    /\ nticks = 0
    /\ nreq = 0
    /\ inflight = <<>>
    /\ universe = {}
    /\ fileCache = <<>>
    /\ event = [type |-> "init"]
    /\ lastOk = [l \in PathLocations |-> <<>>]
    /\ geocodingCache \in {Prefilled(first, n) :
                              first \in {geocodingKey(<<" ">>), geocodingKey(<<"A">>)},
                              n \in {0, maxSize - 1, maxSize}}
    /\ now = CacheEpoch
    /\ timezoneId = "Europe/London"
    /\ view = <<>>

GeoNext ==
    \/ \E key \in GeoKeys : GeoSet(key)
    \/ \E key \in GeoKeys : GeoGet(key)
    \/ GeoClear
    \/ \E d \in GeoTicks : GeoTick(d)

GeoSpec == GeoInit /\ [][GeoNext]_vars

\* The keys of a cache in the order of their insertion, key k left out.
KeysWithout(cache, k) ==
    LET kept == SelectSeq(cache, LAMBDA e : e.key # k)
    IN  [i \in 1..Len(kept) |-> kept[i].key]

\* C23: the geocoding cache never holds more than maxSize entries; a set that
\* finds it full removes its first-inserted entry and no other before it
\* inserts; a get of an entry older than its ttl returns null and deletes it.
C23_GeocodingCacheBounded ==
    [][/\ Len(geocodingCache') <= maxSize
       /\ (view'[1].op = "set" /\ Len(geocodingCache) >= maxSize)
            => KeysWithout(geocodingCache', view'[1].key)
                   = KeysWithout(Tail(geocodingCache), view'[1].key)
       /\ (/\ view'[1].op = "get"
           /\ \E i \in 1..Len(geocodingCache) :
                  /\ geocodingCache[i].key = view'[1].key
                  /\ clock - geocodingCache[i].timestamp > geocodingCache[i].ttl)
            => /\ view'[1].result = <<>>
               /\ \A i \in 1..Len(geocodingCache') : geocodingCache'[i].key # view'[1].key]_vars

\* ------------------------------------------------ the file cache at work

\* Blacklist after 1 failure
FAILURE_THRESHOLD == 1

\* 5 minutes
FAILURE_WINDOW == 5 * 60 * 1000

\* The paths and the public urls of the calls.
FilePaths == {"a.png", "b.pdf"}
PublicUrls == {"https://cdn/a"}

\* isBlacklisted(cached) at Date.now() = t: its answer, and the entry as it
\* leaves it (the failure count reset once the window has passed).  An
\* undefined lastFailure is the empty sequence and counts as 0.
isBlacklisted(cached, t) ==
    IF cached.failedAttempts = 0 \/ cached.failedAttempts < FAILURE_THRESHOLD
    THEN [blacklisted |-> FALSE, cached |-> cached]
    ELSE LET lastFailure == IF Len(cached.lastFailure) > 0 THEN cached.lastFailure[1] ELSE 0
             timeSinceLastFailure == t - lastFailure
         IN  IF timeSinceLastFailure < FAILURE_WINDOW
             THEN [blacklisted |-> TRUE, cached |-> cached]
             ELSE [blacklisted |-> FALSE, cached |-> [cached EXCEPT !.failedAttempts = 0]]

\* getCachedFile(path) at Date.now() = t: the entry it returns (undefined: the
\* empty sequence) and the file cache it leaves.
getCachedFile(files, path, t) ==
    IF path \notin DOMAIN files THEN [result |-> <<>>, files |-> files]
    ELSE LET checked == isBlacklisted(files[path], t)
         IN  IF checked.blacklisted THEN [result |-> <<>>, files |-> files]
             ELSE [result |-> <<checked.cached>>,
                   files |-> [files EXCEPT ![path] = checked.cached]]

\* setCachedFile(path, publicUrl)
setCachedFile(files, path, publicUrl) ==
    (path :> [publicUrl |-> publicUrl, failedAttempts |-> 0, lastFailure |-> <<>>]) @@ files

\* recordFailure(path) at Date.now() = t
recordFailure(files, path, t) ==
    LET cached == IF path \in DOMAIN files THEN files[path]
                  ELSE [publicUrl |-> "", failedAttempts |-> 0, lastFailure |-> <<>>]
    IN  (path :> [cached EXCEPT !.failedAttempts = cached.failedAttempts + 1,
                                !.lastFailure = <<t>>]) @@ files

\* The advances of Date.now() between two calls: one millisecond less than
\* the failure window, and one millisecond.
FileTicks == {FAILURE_WINDOW - 1, 1}

FileSet(path, publicUrl) ==
    /\ nreq < MaxFileOps
    /\ nreq' = nreq + 1
    /\ fileCache' = setCachedFile(fileCache, path, publicUrl)
    /\ view' = <<[op |-> "setCachedFile", path |-> path, result |-> <<>>]>>
    /\ UNCHANGED <<routeCache, clock, nticks, inflight, universe, event, lastOk,
                   geocodingCache, now, timezoneId>>

FileFailure(path) ==
    /\ nreq < MaxFileOps
    /\ nreq' = nreq + 1
    /\ fileCache' = recordFailure(fileCache, path, clock)
    /\ view' = <<[op |-> "recordFailure", path |-> path, result |-> <<>>]>>
    /\ UNCHANGED <<routeCache, clock, nticks, inflight, universe, event, lastOk,
                   geocodingCache, now, timezoneId>>

FileGet(path) ==
    /\ nreq < MaxFileOps
    /\ nreq' = nreq + 1
    /\ fileCache' = getCachedFile(fileCache, path, clock).files
    /\ view' = <<[op |-> "getCachedFile", path |-> path,
                  result |-> getCachedFile(fileCache, path, clock).result]>>
    /\ UNCHANGED <<routeCache, clock, nticks, inflight, universe, event, lastOk,
                   geocodingCache, now, timezoneId>>

FileTick(d) ==
    /\ nticks < MaxTicks
    /\ nticks' = nticks + 1
    /\ clock' = clock + d
    /\ view' = <<[op |-> "tick", path |-> "", result |-> <<>>]>>
    /\ UNCHANGED <<routeCache, nreq, inflight, universe, fileCache, event, lastOk,
                   geocodingCache, now, timezoneId>>

FileInit ==
    /\ CacheIdle
    /\ now = CacheEpoch
    /\ timezoneId = "Europe/London"
    /\ view = <<>>

FileNext ==
    \/ \E path \in FilePaths, publicUrl \in PublicUrls : FileSet(path, publicUrl)
    \/ \E path \in FilePaths : FileFailure(path)
    \/ \E path \in FilePaths : FileGet(path)
    \/ \E d \in FileTicks : FileTick(d)

FileSpec == FileInit /\ [][FileNext]_vars

\* C24: getCachedFile(path) returns undefined while the last failure recorded
\* for the path, with no setCachedFile after it, is less than 5 minutes old;
\* and every entry it returns was stored by setCachedFile: an entry that
\* recordFailure alone created, with the empty publicUrl, is never returned,
\* also after the 5 minutes.
C24_OnlyStoredFilesReturned ==
    [][view'[1].op = "getCachedFile" =>
          LET path == view'[1].path
          IN  /\ (/\ path \in DOMAIN fileCache
                  /\ Len(fileCache[path].lastFailure) > 0
                  /\ clock - fileCache[path].lastFailure[1] < FAILURE_WINDOW)
                     => view'[1].result = <<>>
              /\ Len(view'[1].result) > 0 => view'[1].result[1].publicUrl \in PublicUrls]_vars

====
